---------------------------- MODULE Spec2Model ----------------------------
(***************************************************************************)
(* A model of package cavemap (src/cavemap.go): the survey text parser,    *)
(* the station store (Map.DB), location propagation and the GeoJSON        *)
(* export.                                                                 *)
(*                                                                         *)
(* Conventions                                                             *)
(*  - A Station is a record with the fields of the Go struct that the      *)
(*    code reads or writes.  Section is never read or written by any       *)
(*    function of the package and is left out.                             *)
(*  - m.DB is a function from the integer key to the Station stored under  *)
(*    it.  The store keeps pointers into the caller's slice; the model     *)
(*    stores the value, i.e. the caller hands the slice over and does not  *)
(*    write to it or insert it again afterwards.                           *)
(*  - Go sequences are 0-based, TLA+ sequences 1-based: field[i] of the    *)
(*    code is field[i+1] here, and `last` is shifted the same way (the     *)
(*    code's -1 is 0 here).                                                *)
(*  - A survey text is the sequence of its lines and a line the sequence   *)
(*    of its tab-separated fields, i.e. the value of                       *)
(*    strings.Split(line, "\t").  The empty line is <<"">>.                *)
(*  - Ranging over a Go map visits the keys in an unspecified order; every *)
(*    such loop is modelled by all the orders it may take.                 *)
(*  - ParseSurvey reads nothing of the store, so a survey parsed before     *)
(*    another operation is the survey parsed after it: the caller parses   *)
(*    a text right before it validates and commits the survey.             *)
(*  - A runtime panic or a stack overflow ends the process: panicked       *)
(*    becomes TRUE and no operation runs afterwards.                       *)
(***************************************************************************)
EXTENDS Integers, Sequences, FiniteSets, TLC

VARIABLES
    DB,         \* m.DB
    text,       \* the text given to ParseSurvey, when it ran last
    prefix,     \* the prefix given to ParseSurvey, when it ran last
    srv,        \* the survey parsed and not yet committed (ParseSurvey's first
                \* result), <<>> once another operation than ValidSurvey ran
    start,      \* ParseSurvey's second result, kept as long as srv
    perr,       \* ParseSurvey's third result, when it ran last
    lastOp,     \* the operation that ran last
    err,        \* the error the last store operation returned ("" is nil)
    out,        \* what Marshal produced, when it ran last
    calls,      \* the PropagateLocation calls that ran last in a row (capped)
    batch,      \* the batch given to AddLocalSurvey, when it ran last
    panicked    \* the process was aborted

vars == <<DB, text, prefix, srv, start, perr, lastOp, err, out, calls, batch,
          panicked>>

---------------------------------------------------------------------------
(* Bounds of the model *)

MaxStations == 3    \* stations a store holds at most
MaxBatch == 2       \* stations of one AddLocalSurvey batch at most
MaxFields == 6      \* fields of a line of SpecParse's texts at most
MaxCalls == 2       \* consecutive PropagateLocation calls that are counted

---------------------------------------------------------------------------
(* Program constants *)

START == 0
REAL == 1
NoParent == -1

Station(id, name, from, type, len, azi, depth, lon, lat, comment) ==
    [Id |-> id, Name |-> name, FromId |-> from, Type |-> type, Len |-> len,
     Azi |-> azi, Depth |-> depth, Lon |-> lon, Lat |-> lat, Comment |-> comment]

Max(S) == CHOOSE x \in S : \A y \in S : y <= x

---------------------------------------------------------------------------
(* strconv.ParseFloat on the fields the model uses: the decimal fields     *)
(* parse to their value, every other field is a syntax error.              *)

NumVal ==
    ("0" :> 0) @@ ("1" :> 1) @@ ("2" :> 2) @@ ("10" :> 10) @@ ("90" :> 90) @@
    ("180" :> 180) @@ ("270" :> 270) @@ ("350" :> 350)

ParseFloatOk(f) == f \in DOMAIN NumVal
ParseFloat(f) == NumVal[f]

\* string(line[0]) == "#"
IsComment(field) == field[1] \in {"#", "#c"}

\* fmt.Sprintf("%v", i)
Itoa(i) == <<"1", "2", "3", "4", "5", "6">>[i]

averageAzimuth(x0, y0) ==
    LET x == IF x0 < y0 THEN y0 ELSE x0
        y == IF x0 < y0 THEN x0 ELSE y0
    IN  IF x \div 90 = 3 /\ y \div 90 = 0
        THEN LET a == x + (360 - x + y) \div 2
             IN  IF a >= 360 THEN a - 360 ELSE a
        ELSE x - (x - y) \div 2

reverseAzimuth(x) == IF x < 180 THEN x + 180 ELSE x - 180


---------------------------------------------------------------------------
(* ParseSurvey *)

NoErr == [line |-> 0, what |-> ""]

\* no Marshal output
NoOut == [points |-> <<>>, lines |-> <<>>, missed |-> {}]

\* report(msg, err): the error names the line (n+1 of the code, n here)
report(n, msg) == [line |-> n, what |-> msg]

\* The fields of a line after the pass that handles a trailing tab and a
\* missing comment, with the number of fields the switch then looks at.
\* oob: the pass writes field[last] behind the end of the slice.
Normalize(field) ==
    LET nonEmpty == {i \in 1..Len(field) : field[i] # ""}
        hasempty == \E i \in 1..Len(field) : field[i] = ""
        last == IF nonEmpty = {} THEN 0 ELSE Max(nonEmpty)
        hascomment == \E i \in nonEmpty :
                          i # 1 /\ field[i] # "-" /\ ~ParseFloatOk(field[i])
    IN  IF hasempty /\ last # 0
        THEN IF ParseFloatOk(field[last])
             THEN IF last + 1 > Len(field)
                  THEN [field |-> field, nfield |-> last, oob |-> TRUE]
                  ELSE [field |-> [field EXCEPT ![last + 1] = ""],
                        nfield |-> last + 1, oob |-> FALSE]
             ELSE [field |-> field, nfield |-> last, oob |-> FALSE]
        ELSE IF ~hascomment /\ Len(field) >= 4
             THEN [field |-> Append(field, ""), nfield |-> Len(field) + 1,
                   oob |-> FALSE]
             ELSE [field |-> field, nfield |-> Len(field), oob |-> FALSE]

\* field[1],field[2] = field[2],field[1]; field[2],field[3] = field[3],field[2]
\* (and field[3],field[4] = field[4],field[3] on a line of six fields)
Swap(f, i, j) == [f EXCEPT ![i] = f[j], ![j] = f[i]]
ReverseFields5(f) == Swap(Swap(f, 2, 3), 3, 4)
ReverseFields6(f) == Swap(Swap(Swap(f, 2, 3), 3, 4), 4, 5)

\* The parser's locals between two lines; err # NoErr or panic: it has returned.
ParseStart ==
    [srv |-> <<>>, start |-> "START", label |-> "", reverse |-> FALSE,
     err |-> NoErr, panic |-> FALSE]

Fail(st, n, msg) == [st EXCEPT !.err = report(n, msg)]

Case1(st, f, pfx) ==
    IF f[1] = "auto" /\ pfx # ""
    THEN [st EXCEPT !.label = pfx]
    ELSE IF f[1] = "reverse"
         THEN [st EXCEPT !.reverse = TRUE]
         ELSE [st EXCEPT !.start = f[1]]

Case3(st, n, f) ==
    IF ~ParseFloatOk(f[2]) THEN Fail(st, n, "longitute")
    ELSE IF ~ParseFloatOk(f[3]) THEN Fail(st, n, "latitude")
    ELSE [st EXCEPT !.srv = Append(@,
              Station(0, st.label \o f[1], 0, START, 0, 0, 0,
                      ParseFloat(f[2]), ParseFloat(f[3]), ""))]

Case5(st, n, f0) ==
    LET f == IF st.reverse THEN ReverseFields5(f0) ELSE f0
    IN  IF ~ParseFloatOk(f[2]) THEN Fail(st, n, "azimuth")
        ELSE IF ~ParseFloatOk(f[3]) THEN Fail(st, n, "length")
        ELSE IF ~ParseFloatOk(f[4]) THEN Fail(st, n, "depth")
        ELSE [st EXCEPT !.srv = Append(@,
                  Station(0, st.label \o f[1], 0, REAL, ParseFloat(f[3]),
                          ParseFloat(f[2]), ParseFloat(f[4]), 0, 0, f[5]))]

Case6(st, n, f0) ==
    LET f == IF st.reverse THEN ReverseFields6(f0) ELSE f0
    IN  IF ~ParseFloatOk(f[2]) THEN Fail(st, n, "azimuth1")
        ELSE IF ~ParseFloatOk(f[3]) THEN Fail(st, n, "length")
        ELSE IF f[4] # "-" /\ ~ParseFloatOk(f[4]) THEN Fail(st, n, "azimuth2")
        ELSE IF ~ParseFloatOk(f[5]) THEN Fail(st, n, "depth")
        ELSE LET azi1 == ParseFloat(f[2])
                 azi == IF f[4] # "-"
                        THEN averageAzimuth(azi1, ParseFloat(f[4]))
                        ELSE azi1
             IN  [st EXCEPT !.srv = Append(@,
                      Station(0, st.label \o f[1], 0, REAL, ParseFloat(f[3]),
                              azi, ParseFloat(f[5]), 0, 0, f[6]))]

\* The body of the loop over the lines, for line n with fields field0.
ParseLine(st, n, field0, pfx) ==
    IF field0 = <<"">> \/ IsComment(field0) THEN st
    ELSE LET nz == Normalize(field0)
             f == nz.field
         IN  IF nz.oob THEN [st EXCEPT !.panic = TRUE]
             ELSE CASE nz.nfield = 1 -> Case1(st, f, pfx)
                    [] nz.nfield = 3 -> Case3(st, n, f)
                    [] nz.nfield = 5 -> Case5(st, n, f)
                    [] nz.nfield = 6 -> Case6(st, n, f)
                    [] OTHER -> Fail(st, n, "line")

RECURSIVE ParseLines(_, _, _, _)
ParseLines(st, txt, n, pfx) ==
    IF n > Len(txt) \/ st.err # NoErr \/ st.panic THEN st
    ELSE ParseLines(ParseLine(st, n, txt[n], pfx), txt, n + 1, pfx)

\* slices.Reverse(srv)
Reverse(s) == [i \in 1..Len(s) |-> s[Len(s) + 1 - i]]

\* The pass after the loop, when the text held the reverse directive.
ReversePass(s, pfx) ==
    IF pfx # ""
    THEN [i \in 1..Len(s) |->
             [Reverse(s)[i] EXCEPT !.Name = pfx \o Itoa(i),
                                   !.Azi = reverseAzimuth(@)]]
    ELSE Reverse(s)

\* What ParseSurvey(text, prefix) returns, or that it panicked.
ParseResult(txt, pfx) ==
    LET st == ParseLines(ParseStart, txt, 1, pfx)
    IN  IF st.panic \/ st.err # NoErr \/ ~st.reverse THEN st
        ELSE [st EXCEPT !.srv = ReversePass(st.srv, pfx)]

ParseSurvey(txt, pfx) ==
    /\ ~panicked
    /\ LET r == ParseResult(txt, pfx)
       IN  /\ panicked' = r.panic
           /\ srv' = IF r.panic THEN srv ELSE r.srv
           /\ start' = IF r.panic THEN start ELSE r.start
           /\ perr' = IF r.panic THEN perr ELSE r.err
    /\ text' = txt
    /\ prefix' = pfx
    /\ lastOp' = "ParseSurvey"
    /\ err' = ""
    /\ out' = NoOut
    /\ batch' = <<>>
    /\ calls' = 0
    /\ UNCHANGED DB

---------------------------------------------------------------------------
(* The store: AddLocalSurvey, ValidSurvey, getStationId, AddSurvey *)

\* The loop of AddLocalSurvey from station i of the batch on: it stores the
\* stations one by one and returns at the first id the store already holds.
RECURSIVE AddLocalLoop(_, _, _)
AddLocalLoop(db, survey, i) ==
    IF i > Len(survey) THEN [db |-> db, err |-> ""]
    ELSE IF survey[i].Id \in DOMAIN db
         THEN [db |-> db, err |-> "already in DB"]
         ELSE AddLocalLoop(db @@ (survey[i].Id :> survey[i]), survey, i + 1)

AddLocalSurvey(survey) ==
    /\ ~panicked
    /\ LET r == AddLocalLoop(DB, survey, 1)
       IN  /\ DB' = r.db
           /\ err' = r.err
    /\ batch' = survey
    /\ lastOp' = "AddLocalSurvey"
    /\ calls' = 0
    /\ out' = NoOut
    /\ text' = <<>>
    /\ prefix' = ""
    /\ perr' = NoErr
    /\ srv' = <<>>
    /\ start' = "START"
    /\ UNCHANGED panicked

\* ValidSurvey(srv): nil, or the duplicate name error
ValidSurveyErr(db, s) ==
    IF \E i \in 1..Len(s) : \E k \in DOMAIN db :
           s[i].Name # "START" /\ s[i].Name = db[k].Name
    THEN "duplicate name"
    ELSE ""

ValidSurvey ==
    /\ ~panicked
    /\ err' = ValidSurveyErr(DB, srv)
    /\ lastOp' = "ValidSurvey"
    /\ out' = NoOut
    /\ batch' = <<>>
    /\ text' = <<>>
    /\ prefix' = ""
    /\ perr' = NoErr
    /\ calls' = 0
    /\ UNCHANGED <<DB, srv, start, panicked>>

\* getStationId(name): the ids the scan of the map may return (the first
\* station with that name in the order of the scan); empty when none has it.
getStationId(db, name) == {db[k].Id : k \in {j \in DOMAIN db : db[j].Name = name}}

\* maxid after the loop over m.DB, which starts from 0
MaxId(db) ==
    LET ids == {db[k].Id : k \in DOMAIN db}
    IN  IF \E x \in ids : x > 0 THEN Max({x \in ids : x > 0}) ELSE 0

\* Renumber without the line from = maxid: every station hangs below the
\* start station.
RenumberUnchained(s, from, maxid) ==
    [i \in 1..Len(s) |-> [s[i] EXCEPT !.Id = maxid + i, !.FromId = from]]

\* The survey with the ids and parents AddSurvey writes into it.
Renumber(s, from, maxid) ==
    [i \in 1..Len(s) |->
        [s[i] EXCEPT !.Id = maxid + i,
                     !.FromId = IF i = 1 THEN from ELSE maxid + i - 1]]

\* The loop of AddSurvey that stores the renumbered stations.
RECURSIVE AddLoop(_, _, _)
AddLoop(db, s, i) ==
    IF i > Len(s) THEN [db |-> db, err |-> ""]
    ELSE IF s[i].Id \in DOMAIN db
         THEN [db |-> db, err |-> "already in DB"]
         ELSE AddLoop(db @@ (s[i].Id :> s[i]), s, i + 1)

\* AddSurvey(srv, start) when the start station resolves to id from
AddSurveyFrom(from) ==
    LET r == AddLoop(DB, Renumber(srv, from, MaxId(DB)), 1)
    IN  /\ DB' = r.db
        /\ err' = r.err
        /\ srv' = <<>>
        /\ start' = "START"
        /\ calls' = 0

AddSurveyRefused(e) ==
    /\ err' = e
    /\ calls' = 0
    /\ UNCHANGED <<DB, srv, start>>

AddSurvey ==
    /\ ~panicked
    /\ IF Len(srv) = 0
       THEN AddSurveyRefused("can't add empty survey")
       ELSE IF start = "START"
            THEN AddSurveyFrom(NoParent)
            ELSE IF getStationId(DB, start) \subseteq {NoParent}
                 THEN AddSurveyRefused("unknow station")
                 ELSE \E from \in getStationId(DB, start) :
                          IF from = NoParent
                          THEN AddSurveyRefused("unknow station")
                          ELSE AddSurveyFrom(from)
    /\ lastOp' = "AddSurvey"
    /\ out' = NoOut
    /\ batch' = <<>>
    /\ text' = <<>>
    /\ prefix' = ""
    /\ perr' = NoErr
    /\ UNCHANGED panicked

---------------------------------------------------------------------------
(* forEachStation: the recursive walk *)

\* The orders in which a range over the keys S of the map may visit them.
Perms(S) ==
    {p \in [1..Cardinality(S) -> S] : \A i, j \in DOMAIN p : i # j => p[i] # p[j]}

\* The stations the loop of forEachStation(Id, pre) selects.
Children(db, Id) == {k \in DOMAIN db : db[k].FromId = Id}

\* The ids met by following FromId from station k, k itself left out.
RECURSIVE Up(_, _, _)
Up(db, id, n) ==
    IF n = 0 \/ id \notin DOMAIN db THEN {}
    ELSE {id} \cup Up(db, db[id].FromId, n - 1)

Ancestors(db, k) == Up(db, db[k].FromId, Cardinality(DOMAIN db))

\* forEachStation(Id, pre) never returns: a station it reaches is its own
\* ancestor, so the recursion goes round until the stack is exhausted.
Diverges(db, Id) ==
    \E k \in DOMAIN db : Id \in Ancestors(db, k) /\ k \in Ancestors(db, k)

\* The sequences of stations forEachStation(Id, pre) may call pre on (pre order;
\* the children of a station in the order of the range over the map).
RECURSIVE Walks(_, _), WalkSeq(_, _, _)
Walks(db, Id) == UNION {WalkSeq(db, p, 1) : p \in Perms(Children(db, Id))}
WalkSeq(db, p, i) ==
    IF i > Len(p) THEN {<<>>}
    ELSE {<<p[i]>> \o w \o rest :
              w \in Walks(db, db[p[i]].Id), rest \in WalkSeq(db, p, i + 1)}

\* The stations of type START
Anchors(db) == {k \in DOMAIN db : db[k].Type = START}

---------------------------------------------------------------------------
(* PropagateLocation *)

\* sign of sin(azi) and of cos(azi), azi in degrees
SinSign(azi) ==
    LET a == azi % 360
    IN  IF a = 0 \/ a = 180 THEN 0 ELSE IF a < 180 THEN 1 ELSE -1
CosSign(azi) ==
    LET a == azi % 360
    IN  IF a = 90 \/ a = 270 THEN 0 ELSE IF a < 90 \/ a > 270 THEN 1 ELSE -1

\* advLonLat on a grid: the point len away from (lon, lat) towards azi, each
\* coordinate moved by len in the direction the spherical formula moves it.
advLonLat(lon, lat, azi, len) ==
    <<lon + len * SinSign(azi), lat + len * CosSign(azi)>>

\* updateStation without the test for the unset coordinate, moving the
\* station on from where it lies.
updateStationAgain(db, k) ==
    LET s == db[k]
        to == advLonLat(s.Lon, s.Lat, s.Azi, s.Len)
    IN  [db EXCEPT ![k].Lon = to[1], ![k].Lat = to[2]]

\* updateStation(f, s) for s the station under key k, f its parent
updateStation(db, k) ==
    LET s == db[k]
        f == db[s.FromId]
        to == advLonLat(f.Lon, f.Lat, s.Azi, s.Len)
    IN  IF s.Lon = 0 /\ s.Lat = 0
        THEN [db EXCEPT ![k].Lon = to[1], ![k].Lat = to[2]]
        ELSE db

RECURSIVE ApplyWalk(_, _, _)
ApplyWalk(db, w, i) ==
    IF i > Len(w) THEN db ELSE ApplyWalk(updateStation(db, w[i]), w, i + 1)

\* The stores PropagateLocation may leave, the anchors taken in order a from
\* its i-th on.
RECURSIVE PropagateFrom(_, _, _)
PropagateFrom(db, a, i) ==
    IF i > Len(a) THEN {db}
    ELSE UNION {PropagateFrom(ApplyWalk(db, w, 1), a, i + 1) :
                    w \in Walks(db, db[a[i]].Id)}

PropagateOutcomes(db) ==
    UNION {PropagateFrom(db, a, 1) : a \in Perms(Anchors(db))}

\* Some walk the operation starts never returns.
Overflows(db) == \E k \in Anchors(db) : Diverges(db, db[k].Id)

PropagateLocation ==
    /\ ~panicked
    /\ IF Overflows(DB)
       THEN /\ panicked' = TRUE
            /\ calls' = 0
            /\ UNCHANGED DB
       ELSE /\ DB' \in PropagateOutcomes(DB)
            /\ calls' = IF calls < MaxCalls THEN calls + 1 ELSE calls
            /\ UNCHANGED panicked
    /\ lastOp' = "PropagateLocation"
    /\ err' = ""
    /\ out' = NoOut
    /\ batch' = <<>>
    /\ text' = <<>>
    /\ prefix' = ""
    /\ perr' = NoErr
    /\ srv' = <<>>
    /\ start' = "START"

---------------------------------------------------------------------------
(* byName and sort.Sort *)

\* What byName.Less reads of a name: its place in the byte order of the
\* names of the model (s[i] < s[j]), whether [a-zA-z]+[0-9]+ matches it, the
\* first run of letters and the value of the first run of digits.
NameInfo ==
    ("A10"   :> [rank |-> 1, match |-> TRUE,  letters |-> "A", number |-> 10]) @@
    ("A2"    :> [rank |-> 2, match |-> TRUE,  letters |-> "A", number |-> 2]) @@
    ("START" :> [rank |-> 3, match |-> FALSE, letters |-> "START", number |-> 0])

Less(a, b) ==
    LET ret == NameInfo[a].rank < NameInfo[b].rank
    IN  IF a = "START" THEN TRUE
        ELSE IF b = "START" THEN FALSE
        ELSE IF ~NameInfo[a].match \/ ~NameInfo[b].match THEN ret
        ELSE IF NameInfo[a].letters # NameInfo[b].letters THEN ret
        ELSE NameInfo[a].number < NameInfo[b].number

\* sort.Sort on a slice of at most 12 elements is an insertion sort:
\* for j := i; j > a && Less(j, j-1); j-- { Swap(j, j-1) }
RECURSIVE SiftDown(_, _)
SiftDown(s, j) ==
    IF j > 1 /\ Less(s[j], s[j - 1])
    THEN SiftDown([s EXCEPT ![j] = s[j - 1], ![j - 1] = s[j]], j - 1)
    ELSE s

RECURSIVE SortFrom(_, _)
SortFrom(s, i) == IF i > Len(s) THEN s ELSE SortFrom(SiftDown(s, i), i + 1)

Sort(s) == SortFrom(s, 2)

---------------------------------------------------------------------------
(* Marshal *)

\* nameToStation[n] after the first loop took the keys in order p: the last
\* station of that name.
NameToStation(db, p, n) ==
    db[p[Max({i \in DOMAIN p : db[p[i]].Name = n})]]

\* The point features, the first loop having taken the keys in order p.
PointFeatures(db, p) ==
    LET name == Sort([i \in DOMAIN p |-> db[p[i]].Name])
    IN  [i \in DOMAIN name |->
            LET s == NameToStation(db, p, name[i])
            IN  [coord |-> <<s.Lon, s.Lat>>, name |-> name[i],
                 depth |-> s.Depth, comment |-> s.Comment]]

\* co after the walk w: the parent's and the station's coordinate, per visit
Segments(db, w) ==
    [i \in DOMAIN w |->
        LET s == db[w[i]]
            f == db[s.FromId]
        IN  <<<<f.Lon, f.Lat>>, <<s.Lon, s.Lat>>>>]

\* The line features and reach, the second loop taking the anchors in order
\* a from its i-th on.
RECURSIVE LineFeatures(_, _, _)
LineFeatures(db, a, i) ==
    IF i > Len(a) THEN {[lines |-> <<>>, reach |-> <<>>]}
    ELSE {[lines |-> <<[name |-> db[a[i]].Name, segs |-> Segments(db, w)]>>
                     \o rest.lines,
           reach |-> <<db[a[i]].Id>> \o [j \in DOMAIN w |-> db[w[j]].Id]
                     \o rest.reach] :
              w \in Walks(db, db[a[i]].Id), rest \in LineFeatures(db, a, i + 1)}

\* The sanity check: the ids it prints as missed.
Missed(db, reach) ==
    IF Len(reach) # Cardinality(DOMAIN db)
    THEN {db[k].Id : k \in {j \in DOMAIN db :
                               \A i \in DOMAIN reach : reach[i] # db[j].Id}}
    ELSE {}

\* What Marshal may produce: the features in their order, the ids missed.
MarshalOutcomes(db) ==
    {[points |-> PointFeatures(db, p), lines |-> l.lines,
      missed |-> Missed(db, l.reach)] :
         p \in Perms(DOMAIN db),
         l \in UNION {LineFeatures(db, a, 1) : a \in Perms(Anchors(db))}}

Marshal ==
    /\ ~panicked
    /\ IF Overflows(DB)
       THEN /\ panicked' = TRUE
            /\ out' = NoOut
       ELSE /\ out' \in MarshalOutcomes(DB)
            /\ UNCHANGED panicked
    /\ lastOp' = "Marshal"
    /\ err' = ""
    /\ batch' = <<>>
    /\ text' = <<>>
    /\ prefix' = ""
    /\ perr' = NoErr
    /\ srv' = <<>>
    /\ start' = "START"
    /\ calls' = 0
    /\ UNCHANGED DB

---------------------------------------------------------------------------
(* The inputs *)

\* The ids and parents of the stations a caller hands to AddLocalSurvey
LocalIds == {1, 2}
LocalFrom == {NoParent} \cup LocalIds

\* The first anchor lies at (1, 1), the second at (0, 0); a derived station
\* comes with its leg and without coordinate.
LocalStations ==
    {Station(id, "START", from, START, 0, 0, 0, 2 - id, 2 - id, "") :
         id \in LocalIds, from \in LocalFrom}
    \cup
    {Station(id, "A2", from, REAL, 1, 90, 1, 0, 0, "c") :
         id \in LocalIds, from \in LocalFrom}

\* The lines of the survey texts
SurveyLines ==
    {<<"START", "1", "1">>, <<"A2", "90", "1", "1", "c">>,
     <<"A10", "0", "0", "2">>, <<"A2">>}

SurveyTexts == UNION {[1..n -> SurveyLines] : n \in 0..2}

\* No survey is parsed and waiting to be committed.  An operation that runs
\* while one waits leaves the state it leaves without it, so the callers of
\* the model take up a new input only when none waits.
Idle == Len(srv) = 0 /\ start = "START"

ParseInput ==
    /\ Idle
    /\ \E t \in SurveyTexts : ParseSurvey(t, "")

AddLocalInput ==
    /\ Idle
    /\ \E n \in 1..MaxBatch :
           /\ Cardinality(DOMAIN DB) + n <= MaxStations
           /\ \E survey \in [1..n -> LocalStations] : AddLocalSurvey(survey)

AddSurveyInput ==
    /\ Cardinality(DOMAIN DB) + Len(srv) <= MaxStations
    /\ AddSurvey

PropagateInput == Idle /\ PropagateLocation

MarshalInput == Idle /\ Marshal

---------------------------------------------------------------------------
(* The specifications *)

Init ==
    /\ DB = <<>>
    /\ text = <<>>
    /\ prefix = ""
    /\ srv = <<>>
    /\ start = "START"
    /\ perr = NoErr
    /\ lastOp = "New"
    /\ err = ""
    /\ out = NoOut
    /\ calls = 0
    /\ batch = <<>>
    /\ panicked = FALSE

Next ==
    \/ ParseInput
    \/ ValidSurvey
    \/ AddSurveyInput
    \/ AddLocalInput
    \/ PropagateInput
    \/ MarshalInput

Spec == Init /\ [][Next]_vars

\* Surveys are only committed after ValidSurvey accepted them.
AddSurveyChecked ==
    /\ lastOp = "ValidSurvey"
    /\ err = ""
    /\ AddSurveyInput

NextCommit ==
    \/ ParseInput
    \/ ValidSurvey
    \/ AddSurveyChecked

SpecCommit == Init /\ [][NextCommit]_vars

\* ParseSurvey on a text of one line of any fields, alone or after a comment
\* or a directive, with and without a prefix.
FieldTokens == {"", "90", "-", "x"}

ParseHeaders == {<<"#c">>, <<"auto">>, <<"reverse">>}

ParseTexts ==
    LET lines == UNION {[1..n -> FieldTokens] : n \in 1..MaxFields}
    IN  {<<l>> : l \in lines} \cup {<<h, l>> : h \in ParseHeaders, l \in lines}

InitParse ==
    /\ DB = <<>>
    /\ text \in ParseTexts
    /\ prefix \in {"", "P"}
    /\ srv = <<>>
    /\ start = "START"
    /\ perr = NoErr
    /\ lastOp = "New"
    /\ err = ""
    /\ out = NoOut
    /\ calls = 0
    /\ batch = <<>>
    /\ panicked = FALSE

ParseGiven ==
    /\ lastOp = "New"
    /\ ParseSurvey(text, prefix)

SpecParse == InitParse /\ [][ParseGiven]_vars

---------------------------------------------------------------------------
(* The claims *)

Coord(s) == <<s.Lon, s.Lat>>
Ids(db) == {db[k].Id : k \in DOMAIN db}

C2_NamesUnique ==
    \A j, k \in DOMAIN DB :
        (j # k /\ DB[j].Name = DB[k].Name) => DB[j].Name = "START"

\* C3: the FromId of every stored station is -1 or the id of a stored
\* station (an insertion that would break this is refused).
C3_ParentsExist ==
    \A k \in DOMAIN DB : DB[k].FromId = NoParent \/ DB[k].FromId \in Ids(DB)

\* C4: ParseSurvey returns for every text: it never aborts the process, and
\* the error it returns for a malformed line names a line of the text.
C4_ParseReturns ==
    lastOp = "ParseSurvey" =>
        /\ ~panicked
        /\ perr # NoErr => perr.line \in 1..Len(text)

\* C5: a second PropagateLocation right after a first leaves the coordinate
\* of every station as the first left it, whatever the order of the map's
\* iteration, apart from stations whose coordinate is exactly (0,0).
C5_PropagateIdempotent ==
    [][(lastOp = "PropagateLocation" /\ lastOp' = "PropagateLocation"
            /\ ~panicked') =>
        /\ DOMAIN DB' = DOMAIN DB
        /\ \A k \in DOMAIN DB :
               Coord(DB[k]) # <<0, 0>> => Coord(DB'[k]) = Coord(DB[k])
    ]_vars

\* C5 witness: PropagateLocation ran twice in a row on an anchor with a chain
\* of two derived legs, both located.
C5_Witness ==
    /\ lastOp = "PropagateLocation"
    /\ calls = 2
    /\ ~panicked
    /\ \E a, j, k \in DOMAIN DB :
           /\ DB[a].Type = START /\ DB[j].Type = REAL /\ DB[k].Type = REAL
           /\ DB[j].FromId = a /\ DB[k].FromId = j /\ j # k
           /\ Coord(DB[j]) # <<0, 0>> /\ Coord(DB[k]) # <<0, 0>>
           /\ Coord(DB[j]) # Coord(DB[a])

\* The point feature Marshal is to emit for station s.
PointOf(s) ==
    [coord |-> Coord(s), name |-> s.Name, depth |-> s.Depth, comment |-> s.Comment]

\* C6: Marshal emits one Point feature per station: as many features as
\* stations, and the stations can be matched one to one with the features
\* that carry their coordinates, depth and comment.
C6_OnePointPerStation ==
    (lastOp = "Marshal" /\ ~panicked) =>
        /\ Len(out.points) = Cardinality(DOMAIN DB)
        /\ \E p \in Perms(DOMAIN DB) :
               \A i \in DOMAIN p : out.points[i] = PointOf(DB[p[i]])

\* The stations that are neither an anchor nor a descendant of an anchor.
Unreached(db) ==
    {db[k].Id : k \in {j \in DOMAIN db :
        /\ db[j].Type # START
        /\ \A a \in Anchors(db) : db[a].Id \notin Ancestors(db, j)}}

\* C7: the ids Marshal reports as missed are exactly the stations that are
\* neither an anchor nor a descendant of an anchor, and it returns no error.
C7_MissedAreUnreached ==
    (lastOp = "Marshal" /\ ~panicked) =>
        /\ out.missed = Unreached(DB)
        /\ err = ""

\* C8: Marshal is deterministic: every order in which the map may be
\* iterated yields the features Marshal returned, in the same order.
C8_MarshalDeterministic ==
    (lastOp = "Marshal" /\ ~panicked) =>
        \A o \in MarshalOutcomes(DB) :
            o.points = out.points /\ o.lines = out.lines

\* C9: AddLocalSurvey is all-or-nothing: if an id of the batch is in the
\* store it returns an error and leaves the store as it was; otherwise it
\* returns no error and the store holds every station of the batch under
\* its id.
C9_AddLocalAllOrNothing ==
    [][lastOp' = "AddLocalSurvey" =>
        IF \E i \in DOMAIN batch' : batch'[i].Id \in DOMAIN DB
        THEN err' # "" /\ DB' = DB
        ELSE /\ err' = ""
             /\ \A i \in DOMAIN batch' :
                    /\ batch'[i].Id \in DOMAIN DB'
                    /\ DB'[batch'[i].Id] = batch'[i]
    ]_vars

\* C10: the parent relation of the store has no cycle: no station is met
\* again by following FromId from it (and so no walk runs forever).
C10_NoCycle ==
    /\ \A k \in DOMAIN DB : k \notin Ancestors(DB, k)
    /\ (lastOp \in {"PropagateLocation", "Marshal"} => ~panicked)

\* C11: PropagateLocation writes only the coordinate of REAL stations whose
\* coordinate is (0,0): it keeps the set of stored stations, every field
\* other than Lon and Lat of every station, the coordinate of every START
\* station (chained below another station or not) and the coordinate of
\* every station whose coordinate is not (0,0).
C11_PropagateFrame ==
    [][(lastOp' = "PropagateLocation" /\ ~panicked') =>
        /\ DOMAIN DB' = DOMAIN DB
        /\ \A k \in DOMAIN DB :
               /\ [DB'[k] EXCEPT !.Lon = 0, !.Lat = 0]
                      = [DB[k] EXCEPT !.Lon = 0, !.Lat = 0]
               /\ (DB[k].Type = START \/ Coord(DB[k]) # <<0, 0>>)
                      => Coord(DB'[k]) = Coord(DB[k])
    ]_vars

\* C12: when the text holds the reverse directive, ParseSurvey returns the
\* stations in the reverse of the order of their lines, the bearing of each
\* reading replaced by reverseAzimuth of the bearing read from its line, with
\* and without a prefix; the names are prefix1..prefixN with a prefix and
\* those of the lines without one.
C12_ReverseDirective ==
    (lastOp = "ParseSurvey" /\ ~panicked /\ perr = NoErr) =>
        LET st == ParseLines(ParseStart, text, 1, prefix)
            n == Len(st.srv)
        IN  st.reverse =>
                /\ Len(srv) = n
                /\ \A i \in 1..n :
                       LET read == st.srv[n + 1 - i]
                       IN  /\ [srv[i] EXCEPT !.Azi = 0, !.Name = ""]
                                  = [read EXCEPT !.Azi = 0, !.Name = ""]
                           /\ read.Type = REAL
                                  => srv[i].Azi = reverseAzimuth(read.Azi)
                           /\ srv[i].Name = IF prefix # ""
                                            THEN prefix \o Itoa(i)
                                            ELSE read.Name

=============================================================================
